---- MODULE Spec2Model ----
(***************************************************************************)
(* Random bipolar vectors and their minimum pairwise Hamming distance:     *)
(* the analytic estimator (analytic_01.py), the two Monte Carlo            *)
(* estimators (sample.py, sample_2.py) and the parameter sweep.            *)
(*                                                                         *)
(* Probabilities are exact rationals <<num, den>> in lowest terms with     *)
(* den > 0.  The source computes them in IEEE doubles; the model keeps the  *)
(* real-number value of every expression and leaves rounding out.          *)
(***************************************************************************)
EXTENDS Integers, Sequences, FiniteSets, TLC

(***************************************************************************)
(* Bounds of the model.                                                    *)
(***************************************************************************)
\* Stands for the search ceiling high_D = 1000 of analytic_01.py line 26,
\* scaled down so that the binomial sums stay small.
SearchCeiling == 8
\* Largest dimension D handed to the tail model and to forward mode.
MaxD == 10
\* Largest number of vectors N handed to the analytic estimator.
MaxN == 4
\* Target probabilities are the fractions 0/TauDen .. TauDen/TauDen.
TauDen == 8
\* Monte Carlo: largest N, largest D, largest N*D and largest trial count.
MCMaxN == 3
MCMaxD == 2
MaxCells == 6
MaxTrials == 2
\* Sweep: longest input sequence.
MaxSeq == 2

None == "None"

(***************************************************************************)
(* Exact rational arithmetic.                                              *)
(***************************************************************************)
Abs(x) == IF x < 0 THEN -x ELSE x

RECURSIVE GCD(_, _)
GCD(a, b) == IF b = 0 THEN a ELSE GCD(b, a % b)

Rat(n, d) ==
    LET g == GCD(Abs(n), Abs(d))
        s == IF d < 0 THEN -1 ELSE 1
    IN  <<(s * n) \div g, (s * d) \div g>>

IntRat(n) == <<n, 1>>
RatAdd(a, b) == Rat(a[1] * b[2] + b[1] * a[2], a[2] * b[2])
RatSub(a, b) == Rat(a[1] * b[2] - b[1] * a[2], a[2] * b[2])
RatMul(a, b) == Rat(a[1] * b[1], a[2] * b[2])
RatLeq(a, b) == a[1] * b[2] <= b[1] * a[2]
RatLt(a, b) == a[1] * b[2] < b[1] * a[2]
RatGeq(a, b) == RatLeq(b, a)

RECURSIVE Pow2(_)
Pow2(n) == IF n <= 0 THEN 1 ELSE 2 * Pow2(n - 1)

\* (0.5)**D for an integer D of either sign.
HalfPow(D) == IF D >= 0 THEN <<1, Pow2(D)>> ELSE <<Pow2(-D), 1>>

(***************************************************************************)
(* scipy.special.comb(N, k), exact=False: the binomial coefficient where   *)
(* 0 <= k <= N, and 0 everywhere else.                                     *)
(***************************************************************************)
RECURSIVE binom(_, _)
binom(n, k) == IF k = 0 THEN 1 ELSE (binom(n, k - 1) * (n - k + 1)) \div k

comb(n, k) == IF k <= n /\ n >= 0 /\ k >= 0 THEN binom(n, k) ELSE 0

(***************************************************************************)
(* probability_distance_less_than(D, min_distance), analytic_01.py 55-68.  *)
(***************************************************************************)
\* for k in range(min_distance): p_too_close += comb(D, k) * (0.5)**D
\* `power` is the exponent of 0.5, which the source takes to be D.
RECURSIVE TailLoop(_, _, _, _, _)
TailLoop(D, power, bound, k, p_too_close) ==
    IF k >= bound THEN p_too_close
    ELSE TailLoop(D, power, bound, k + 1,
                  RatAdd(p_too_close,
                         RatMul(IntRat(comb(D, k)), HalfPow(power))))

probability_distance_less_than_inclusive(D, min_distance) ==
    TailLoop(D, D, min_distance + 1, 0, IntRat(0))

probability_distance_less_than_wrongpower(D, min_distance) ==
    TailLoop(D, min_distance, min_distance, 0, IntRat(0))

probability_distance_less_than(D, min_distance) ==
    TailLoop(D, D, min_distance, 0, IntRat(0))

(***************************************************************************)
(* probability_all_vectors_min_distance, forward mode (lines 39-53).       *)
(***************************************************************************)
RatMax0(x) == IF RatLt(x, IntRat(0)) THEN IntRat(0) ELSE x

forward_mode_unclamped(N, D, min_distance) ==
    RatSub(IntRat(1),
           RatMul(IntRat(comb(N, 2)),
                  probability_distance_less_than(D, min_distance)))

forward_mode(N, D, min_distance) ==
    LET num_pairs == comb(N, 2)
        p_too_close == probability_distance_less_than(D, min_distance)
        p_at_least_one_too_close == RatMul(IntRat(num_pairs), p_too_close)
    IN  RatMax0(RatSub(IntRat(1), p_at_least_one_too_close))

(***************************************************************************)
(* probability_all_vectors_min_distance, inverse mode (lines 21-37).       *)
(***************************************************************************)
\* Line 30: prob = 1 - (N * (N-1) / 2) * probability_distance_less_than(...)
search_prob(N, mid_D, min_distance) ==
    RatSub(IntRat(1),
           RatMul(Rat(N * (N - 1), 2),
                  probability_distance_less_than(mid_D, min_distance)))

\* Python's floor division by 2.
FloorHalf(x) == IF x >= 0 THEN x \div 2 ELSE -((1 - x) \div 2)

\* One iteration of the while loop, lines 29-35: the new <<low_D, high_D>>.
SearchStep_strict(N, min_distance, tau, lo, hi) ==
    LET mid_D == FloorHalf(lo + hi)
        prob == search_prob(N, mid_D, min_distance)
    IN  IF RatLt(tau, prob) THEN <<lo, mid_D - 1>> ELSE <<mid_D + 1, hi>>

SearchStep(N, min_distance, tau, lo, hi) ==
    LET mid_D == FloorHalf(lo + hi)
        prob == search_prob(N, mid_D, min_distance)
    IN  IF RatGeq(prob, tau) THEN <<lo, mid_D - 1>> ELSE <<mid_D + 1, hi>>

\* Line 37: return low_D
SearchReturn_high(lo, hi) == hi

SearchReturn(lo, hi) == lo

\* The whole inverse-mode call, as the sweep makes it.
RECURSIVE SearchLoop(_, _, _, _, _)
SearchLoop(N, min_distance, tau, lo, hi) ==
    IF lo <= hi
    THEN LET w == SearchStep(N, min_distance, tau, lo, hi)
         IN  SearchLoop(N, min_distance, tau, w[1], w[2])
    ELSE SearchReturn(lo, hi)

inverse_mode(N, min_distance, tau) ==
    SearchLoop(N, min_distance, tau, min_distance, SearchCeiling)

(***************************************************************************)
(* sample_2.py: hamming_distance and the pieces of the pairwise check.     *)
(***************************************************************************)
\* np.sum(v1 != v2)
hamming_distance(v1, v2) ==
    Cardinality({d \in DOMAIN v1 : v1[d] # v2[d]})

\* Line 34: if distance < min_distance
TooClose_inclusive(distance, m) == distance <= m

TooClose(distance, m) == distance < m

\* Line 32: for j in range(i+1, N) starts at i+1
InnerStart(k) == k + 1

\* np.random.choice([-1, 1], size=(n, d)): every n-by-d array of -1 and 1.
VectorSets(n, d) == [0 .. n - 1 -> [0 .. d - 1 -> {-1, 1}]]

(***************************************************************************)
(* sample.py lines 25-28: the deduplicating check of one trial.            *)
(***************************************************************************)
\* tuple(v): the coordinates of a row, in order, as a tuple.
tuple(v) == [k \in 1 .. Cardinality(DOMAIN v) |-> v[k - 1]]

vector_set(vs) == {tuple(vs[r]) : r \in DOMAIN vs}

AllDistinctByHash_atmost(vs, n) == Cardinality(vector_set(vs)) <= n

AllDistinctByHash(vs, n) == Cardinality(vector_set(vs)) = n

(***************************************************************************)
(* calculate_required_dimensions, analytic_01.py 70-92: dictionaries are   *)
(* functions whose domain is the key set.                                  *)
(***************************************************************************)
EmptyDict == [x \in {} |-> 0]

Put(dict, key, val) ==
    [x \in (DOMAIN dict) \cup {key} |-> IF x = key THEN val ELSE dict[x]]

\* Line 90: results[N][min_dist][prob] = D
StoreResult_fresh(res, n, m, p, d) ==
    Put(res, n, Put(res[n], m, Put(EmptyDict, p, d)))

StoreResult(res, n, m, p, d) ==
    Put(res, n, Put(res[n], m, Put(res[n][m], p, d)))

(***************************************************************************)
(* State.                                                                  *)
(***************************************************************************)
VARIABLES
    op,                   \* the entry point this run calls
    pc,                   \* position inside the call
    outcome,              \* how the call ended: a return or a raised exception
    ret,                  \* the returned value
    N, D, min_distance, success_probability, num_trials,   \* arguments
    low_D, high_D,        \* locals of inverse mode
    prevCall,             \* <<D, value>> of the previous forward-mode call
    trial,                \* Monte Carlo: trials started so far
    vectors,              \* Monte Carlo: the sample of the current trial
    i, j,                 \* Monte Carlo: loop variables of the pair loops
    all_meet_min_distance,
    success_count,        \* sample_2.py's counter
    hash_success_count,   \* sample.py's counter, fed the same samples
    N_values, min_distances, target_probabilities,         \* sweep arguments
    results,              \* sweep: the nested dictionary
    ni, mi, pi,           \* sweep: positions of the three for loops
    callLog               \* sweep: the inverse-mode calls made, in order

argVars == <<N, D, min_distance, success_probability, num_trials>>
searchVars == <<low_D, high_D>>
mcVars == <<trial, vectors, i, j, all_meet_min_distance, success_count,
            hash_success_count>>
sweepArgs == <<N_values, min_distances, target_probabilities>>
sweepVars == <<results, ni, mi, pi, callLog>>
vars == <<op, pc, outcome, ret, argVars, searchVars, prevCall, mcVars,
          sweepArgs, sweepVars>>

(***************************************************************************)
(* Inputs.                                                                 *)
(***************************************************************************)
Taus == {Rat(k, TauDen) : k \in 0 .. TauDen + 1}
SeqsUpTo(S, n) == UNION {[1 .. k -> S] : k \in 0 .. n}
SweepNs == {2, 3}
SweepMins == {1, 2}
SweepTaus == {Rat(1, 2), Rat(TauDen - 1, TauDen)}

NoMC ==
    /\ trial = 0 /\ vectors = None /\ i = 0 /\ j = 0
    /\ all_meet_min_distance = TRUE
    /\ success_count = 0 /\ hash_success_count = 0

NoSweep ==
    /\ N_values = <<>> /\ min_distances = <<>> /\ target_probabilities = <<>>
    /\ results = EmptyDict /\ ni = 0 /\ mi = 0 /\ pi = 0 /\ callLog = <<>>

InitTail ==
    /\ op = "tail"
    /\ N = None /\ success_probability = None /\ num_trials = None
    /\ D \in -1 .. MaxD
    /\ min_distance \in -1 .. MaxD + 1
    /\ NoMC /\ NoSweep

InitForward ==
    /\ op = "forward"
    /\ N \in -1 .. MaxN
    /\ D \in -1 .. MaxD
    /\ min_distance \in -1 .. MaxD + 1
    /\ success_probability = None /\ num_trials = None
    /\ NoMC /\ NoSweep

InitInverse ==
    /\ op = "inverse"
    /\ N \in -1 .. MaxN
    /\ D = None
    /\ min_distance \in -1 .. SearchCeiling + 2
    /\ success_probability \in Taus
    /\ num_trials = None
    /\ NoMC /\ NoSweep

InitMC ==
    /\ op = "mc"
    /\ N \in -1 .. MCMaxN
    /\ D \in -1 .. MCMaxD
    /\ N * D <= MaxCells
    /\ min_distance \in -1 .. MCMaxD + 1
    /\ success_probability = None
    /\ num_trials \in -1 .. MaxTrials
    /\ NoMC /\ NoSweep

InitSweep ==
    /\ op = "sweep"
    /\ N = None /\ D = None /\ min_distance = None
    /\ success_probability = None /\ num_trials = None
    /\ NoMC
    /\ N_values \in SeqsUpTo(SweepNs, MaxSeq)
    /\ min_distances \in SeqsUpTo(SweepMins, MaxSeq)
    /\ target_probabilities \in SeqsUpTo(SweepTaus, MaxSeq)
    /\ results = EmptyDict /\ ni = 0 /\ mi = 0 /\ pi = 0 /\ callLog = <<>>

Init ==
    /\ pc = "start" /\ outcome = "running" /\ ret = None
    /\ low_D = None /\ high_D = None /\ prevCall = None
    /\ \/ InitTail
       \/ InitForward
       \/ InitInverse
       \/ InitMC
       \/ InitSweep

Return(v) == pc' = "done" /\ outcome' = "return" /\ ret' = v
Raise(e) == pc' = "done" /\ outcome' = e /\ ret' = None

(***************************************************************************)
(* Analytic estimator.                                                     *)
(***************************************************************************)
\* probability_distance_less_than(D, min_distance)
TailCall ==
    /\ op = "tail" /\ pc = "start"
    /\ Return(probability_distance_less_than(D, min_distance))
    /\ UNCHANGED <<op, argVars, searchVars, prevCall, mcVars, sweepArgs,
                   sweepVars>>

\* probability_all_vectors_min_distance(N, D, min_distance)
ForwardCall ==
    /\ op = "forward" /\ pc = "start"
    /\ Return(forward_mode(N, D, min_distance))
    /\ UNCHANGED <<op, argVars, searchVars, prevCall, mcVars, sweepArgs,
                   sweepVars>>

\* The caller asks again with another D, N and min_distance unchanged.
ForwardAgain ==
    /\ op = "forward" /\ pc = "done"
    /\ \E d \in -1 .. MaxD :
          /\ D' = d
          /\ prevCall' = <<D, ret>>
    /\ pc' = "start" /\ outcome' = "running" /\ ret' = None
    /\ UNCHANGED <<op, N, min_distance, success_probability, num_trials,
                   searchVars, mcVars, sweepArgs, sweepVars>>

\* Lines 21-26.
InverseEnter ==
    /\ op = "inverse" /\ pc = "start"
    /\ low_D' = min_distance
    /\ high_D' = SearchCeiling
    /\ pc' = "loop"
    /\ UNCHANGED <<op, outcome, ret, argVars, prevCall, mcVars, sweepArgs,
                   sweepVars>>

\* Lines 28-35: one iteration of the while loop.
InverseIter ==
    /\ op = "inverse" /\ pc = "loop"
    /\ low_D <= high_D
    /\ LET w == SearchStep(N, min_distance, success_probability, low_D, high_D)
       IN  low_D' = w[1] /\ high_D' = w[2]
    /\ UNCHANGED <<op, pc, outcome, ret, argVars, prevCall, mcVars, sweepArgs,
                   sweepVars>>

\* Lines 28 and 37: the loop condition fails, return low_D.
InverseReturn ==
    /\ op = "inverse" /\ pc = "loop"
    /\ ~(low_D <= high_D)
    /\ Return(SearchReturn(low_D, high_D))
    /\ UNCHANGED <<op, argVars, searchVars, prevCall, mcVars, sweepArgs,
                   sweepVars>>

(***************************************************************************)
(* Monte Carlo estimators.  sample_2.py's simulate_vector_distinctness is  *)
(* followed statement by statement; sample.py's is run beside it on the    *)
(* same samples (its whole per-trial check is one step, MCHash).           *)
(***************************************************************************)
\* Line 22: success_count = 0
MCStart ==
    /\ op = "mc" /\ pc = "start"
    /\ success_count' = 0 /\ hash_success_count' = 0
    /\ pc' = "trials"
    /\ UNCHANGED <<op, outcome, ret, argVars, searchVars, prevCall, trial,
                   vectors, i, j, all_meet_min_distance, sweepArgs, sweepVars>>

\* Lines 24-26: the next trial draws its sample.
MCSample ==
    /\ op = "mc" /\ pc = "trials"
    /\ trial < num_trials
    /\ N >= 0 /\ D >= 0
    /\ \E vs \in VectorSets(N, D) : vectors' = vs
    /\ trial' = trial + 1
    /\ pc' = "hash"
    /\ UNCHANGED <<op, outcome, ret, argVars, searchVars, prevCall, i, j,
                   all_meet_min_distance, success_count, hash_success_count,
                   sweepArgs, sweepVars>>

\* Line 26 with a negative size: numpy raises ValueError.
MCSampleFails ==
    /\ op = "mc" /\ pc = "trials"
    /\ trial < num_trials
    /\ (N < 0 \/ D < 0)
    /\ Raise("ValueError")
    /\ UNCHANGED <<op, argVars, searchVars, prevCall, mcVars, sweepArgs,
                   sweepVars>>

\* sample.py lines 25-29 on this trial's sample; then sample_2.py line 29.
MCHash ==
    /\ op = "mc" /\ pc = "hash"
    /\ hash_success_count' =
          IF AllDistinctByHash(vectors, N) THEN hash_success_count + 1
          ELSE hash_success_count
    /\ all_meet_min_distance' = TRUE
    /\ i' = 0
    /\ pc' = "outer"
    /\ UNCHANGED <<op, outcome, ret, argVars, searchVars, prevCall, trial,
                   vectors, j, success_count, sweepArgs, sweepVars>>

\* Line 31: for i in range(N)
MCOuter ==
    /\ op = "mc" /\ pc = "outer"
    /\ IF i < N
       THEN j' = InnerStart(i) /\ pc' = "inner"
       ELSE j' = j /\ pc' = "tally"
    /\ UNCHANGED <<op, outcome, ret, argVars, searchVars, prevCall, trial,
                   vectors, i, all_meet_min_distance, success_count,
                   hash_success_count, sweepArgs, sweepVars>>

\* Lines 32-36: one pass of for j in range(i+1, N), with its break.
MCInner ==
    /\ op = "mc" /\ pc = "inner"
    /\ IF j < N
       THEN IF TooClose(hamming_distance(vectors[i], vectors[j]), min_distance)
            THEN /\ all_meet_min_distance' = FALSE
                 /\ j' = j
                 /\ pc' = "after"
            ELSE /\ all_meet_min_distance' = all_meet_min_distance
                 /\ j' = j + 1
                 /\ pc' = "inner"
       ELSE /\ all_meet_min_distance' = all_meet_min_distance
            /\ j' = j
            /\ pc' = "after"
    /\ UNCHANGED <<op, outcome, ret, argVars, searchVars, prevCall, trial,
                   vectors, i, success_count, hash_success_count, sweepArgs,
                   sweepVars>>

\* Lines 37-38: if not all_meet_min_distance: break
MCAfterInner ==
    /\ op = "mc" /\ pc = "after"
    /\ IF ~all_meet_min_distance
       THEN i' = i /\ pc' = "tally"
       ELSE i' = i + 1 /\ pc' = "outer"
    /\ UNCHANGED <<op, outcome, ret, argVars, searchVars, prevCall, trial,
                   vectors, j, all_meet_min_distance, success_count,
                   hash_success_count, sweepArgs, sweepVars>>

\* Lines 40-41: if all_meet_min_distance: success_count += 1
MCTally ==
    /\ op = "mc" /\ pc = "tally"
    /\ success_count' =
          IF all_meet_min_distance THEN success_count + 1 ELSE success_count
    /\ pc' = "trials"
    /\ UNCHANGED <<op, outcome, ret, argVars, searchVars, prevCall, trial,
                   vectors, i, j, all_meet_min_distance, hash_success_count,
                   sweepArgs, sweepVars>>

\* Lines 43-44: probability = success_count / num_trials
MCReturn ==
    /\ op = "mc" /\ pc = "trials"
    /\ ~(trial < num_trials)
    /\ num_trials # 0
    /\ Return(Rat(success_count, num_trials))
    /\ UNCHANGED <<op, argVars, searchVars, prevCall, mcVars, sweepArgs,
                   sweepVars>>

\* Line 43 with num_trials = 0.
MCDivideByZero ==
    /\ op = "mc" /\ pc = "trials"
    /\ ~(trial < num_trials)
    /\ num_trials = 0
    /\ Raise("ZeroDivisionError")
    /\ UNCHANGED <<op, argVars, searchVars, prevCall, mcVars, sweepArgs,
                   sweepVars>>

(***************************************************************************)
(* calculate_required_dimensions.  ni, mi, pi count the elements each for  *)
(* loop has taken; the loop variables are N_values[ni], min_distances[mi]  *)
(* and target_probabilities[pi].                                           *)
(***************************************************************************)
\* Line 82: results = {}
SweepStart ==
    /\ op = "sweep" /\ pc = "start"
    /\ results' = EmptyDict
    /\ ni' = 0
    /\ pc' = "forN"
    /\ UNCHANGED <<op, outcome, ret, argVars, searchVars, prevCall, mcVars,
                   sweepArgs, mi, pi, callLog>>

\* Lines 84-85: for N in N_values: results[N] = {}
SweepForN ==
    /\ op = "sweep" /\ pc = "forN"
    /\ ni < Len(N_values)
    /\ ni' = ni + 1
    /\ results' = Put(results, N_values[ni + 1], EmptyDict)
    /\ mi' = 0
    /\ pc' = "forM"
    /\ UNCHANGED <<op, outcome, ret, argVars, searchVars, prevCall, mcVars,
                   sweepArgs, pi, callLog>>

\* Lines 86-87: for min_dist in min_distances: results[N][min_dist] = {}
SweepForM ==
    /\ op = "sweep" /\ pc = "forM"
    /\ IF mi < Len(min_distances)
       THEN LET n == N_values[ni]
                m == min_distances[mi + 1]
            IN  /\ mi' = mi + 1
                /\ results' = Put(results, n, Put(results[n], m, EmptyDict))
                /\ pi' = 0
                /\ pc' = "forP"
       ELSE /\ pc' = "forN"
            /\ UNCHANGED <<mi, results, pi>>
    /\ UNCHANGED <<op, outcome, ret, argVars, searchVars, prevCall, mcVars,
                   sweepArgs, ni, callLog>>

\* Lines 88-90: for prob in target_probabilities: the inverse-mode call.
SweepForP ==
    /\ op = "sweep" /\ pc = "forP"
    /\ IF pi < Len(target_probabilities)
       THEN LET n == N_values[ni]
                m == min_distances[mi]
                p == target_probabilities[pi + 1]
                d == inverse_mode(n, m, p)
            IN  /\ pi' = pi + 1
                /\ callLog' = Append(callLog, <<ni, mi, pi + 1>>)
                /\ results' = StoreResult(results, n, m, p, d)
                /\ pc' = "forP"
       ELSE /\ pc' = "forM"
            /\ UNCHANGED <<pi, callLog, results>>
    /\ UNCHANGED <<op, outcome, ret, argVars, searchVars, prevCall, mcVars,
                   sweepArgs, ni, mi>>

\* Line 92: return results
SweepReturn ==
    /\ op = "sweep" /\ pc = "forN"
    /\ ~(ni < Len(N_values))
    /\ Return(results)
    /\ UNCHANGED <<op, argVars, searchVars, prevCall, mcVars, sweepArgs,
                   sweepVars>>

Next ==
    \/ TailCall
    \/ ForwardCall
    \/ ForwardAgain
    \/ InverseEnter
    \/ InverseIter
    \/ InverseReturn
    \/ MCStart
    \/ MCSample
    \/ MCSampleFails
    \/ MCHash
    \/ MCOuter
    \/ MCInner
    \/ MCAfterInner
    \/ MCTally
    \/ MCReturn
    \/ MCDivideByZero
    \/ SweepStart
    \/ SweepForN
    \/ SweepForM
    \/ SweepForP
    \/ SweepReturn

Spec == Init /\ [][Next]_vars

(***************************************************************************)
(* Reference notions the properties are stated with.                       *)
(***************************************************************************)
\* C(n, k) as the number of k-element subsets of an n-element set.
BinomialTable ==
    [n \in 0 .. (IF MaxN > MaxD THEN MaxN ELSE MaxD) |->
        [k \in 0 .. n |->
            Cardinality({S \in SUBSET (1 .. n) : Cardinality(S) = k})]]

\* C(d, 0) + ... + C(d, m-1), for 0 <= m <= d.
RECURSIVE CountBelow(_, _)
CountBelow(d, m) ==
    IF m <= 0 THEN 0 ELSE BinomialTable[d][m - 1] + CountBelow(d, m - 1)

\* forward-mode(n, d, m) >= tau
Sat(n, d, m, tau) == RatGeq(forward_mode(n, d, m), tau)

InUnitInterval(tau) == RatLt(IntRat(0), tau) /\ RatLt(tau, IntRat(1))

\* Some D of the search range meets the target.
Reachable == \E d \in min_distance .. SearchCeiling :
                 Sat(N, d, min_distance, success_probability)

InverseDone == op = "inverse" /\ pc = "done"

\* Every pair of the sample is at Hamming distance >= m.
AllPairsFar(vs, n, m) ==
    \A a \in 0 .. n - 1 : \A b \in 0 .. n - 1 :
        a < b => Cardinality({c \in DOMAIN vs[a] : vs[a][c] # vs[b][c]}) >= m

Elems(s) == {s[k] : k \in 1 .. Len(s)}

C2_ExhaustionSurfaced ==
    (/\ InverseDone
     /\ N >= 2 /\ min_distance >= 0 /\ InUnitInterval(success_probability)
     /\ ~Reachable)
    => /\ outcome # "return"
       /\ ~(outcome = "return"
            /\ ~Sat(N, ret, min_distance, success_probability))

\* The parameters the error taxonomy calls invalid, per entry point.
InvalidArgs ==
    CASE op = "tail" ->
            D < 0 \/ min_distance < 0 \/ min_distance > D
      [] op = "forward" ->
            N < 2 \/ D < 0 \/ min_distance < 0 \/ min_distance > D
      [] op = "inverse" ->
            N < 2 \/ min_distance < 0 \/ ~InUnitInterval(success_probability)
      [] op = "mc" ->
            \/ N < 2 \/ D < 0 \/ min_distance < 0 \/ min_distance > D
            \/ num_trials < 1
      [] op = "sweep" ->
            \/ \E n \in Elems(N_values) : n < 2
            \/ \E m \in Elems(min_distances) : m < 0
            \/ \E p \in Elems(target_probabilities) : ~InUnitInterval(p)

\* C3: a call with an invalid parameter ends in a validation failure
\* before any computation and returns no number.
C3_InvalidRejected ==
    InvalidArgs =>
        \/ pc = "start"
        \/ pc = "done" /\ outcome = "ValidationError" /\ ret = None

\* C4: forward mode is max(0, 1 - C(N,2) * tail): in [0,1], 0 when the
\* union bound saturates, 0 at (3,1,1) and 1 - 1/1024 at (2,10,1).
C4_ForwardClamped ==
    (/\ op = "forward" /\ pc = "done"
     /\ N >= 2 /\ D >= 1 /\ 0 <= min_distance /\ min_distance <= D)
    => LET pairs == BinomialTable[N][2]
           below == CountBelow(D, min_distance)
           den == Pow2(D)
           num == IF pairs * below >= den THEN 0 ELSE den - pairs * below
       IN  /\ outcome = "return"
           /\ ret[2] > 0
           /\ ret[1] * den = num * ret[2]
           /\ 0 <= ret[1] /\ ret[1] <= ret[2]
           /\ pairs * below >= den => ret = <<0, 1>>
           /\ (N = 3 /\ D = 1 /\ min_distance = 1) => ret = <<0, 1>>
           /\ (N = 2 /\ D = 10 /\ min_distance = 1) => ret = <<1023, 1024>>

C4_Witness ==
    /\ op = "forward" /\ pc = "done"
    /\ N = 3 /\ D = 1 /\ min_distance = 1
    /\ ret = <<0, 1>>

\* C5: the tail model is (C(D,0) + ... + C(D,minDistance-1)) / 2^D for
\* 0 <= minDistance <= D: in [0,1], 0 at minDistance = 0, and
\* 1 - 1/2^D at minDistance = D.
C5_TailExact ==
    (/\ op = "tail" /\ pc = "done"
     /\ 0 <= min_distance /\ min_distance <= D)
    => /\ outcome = "return"
       /\ ret[2] > 0
       /\ ret[1] * Pow2(D) = CountBelow(D, min_distance) * ret[2]
       /\ 0 <= ret[1] /\ ret[1] <= ret[2]
       /\ min_distance = 0 => ret[1] = 0
       /\ min_distance = D => ret[1] * Pow2(D) = (Pow2(D) - 1) * ret[2]

C5_Witness ==
    /\ op = "tail" /\ pc = "done"
    /\ D = 3 /\ min_distance = 3
    /\ ret = <<7, 8>>

\* C6: for fixed N >= 2 and minDistance, forward mode is non-decreasing in
\* D over the search range: D1 <= D2 gives forward(D1) <= forward(D2).
C6_MonotoneInD ==
    (/\ op = "forward" /\ pc = "done" /\ prevCall # None
     /\ N >= 2
     /\ min_distance <= prevCall[1] /\ prevCall[1] <= D
     /\ D <= SearchCeiling)
    => RatLeq(prevCall[2], ret)

C6_Witness ==
    /\ op = "forward" /\ pc = "done" /\ prevCall # None
    /\ N = 2 /\ min_distance = 1
    /\ prevCall = <<1, <<1, 2>>>>
    /\ D = 2 /\ ret = <<3, 4>>

\* T >= 1 trials, and sizes for which a sample can be drawn.
C7_Applies == op = "mc" /\ num_trials >= 1 /\ N >= 0 /\ D >= 0

\* The counter stays within 0 .. trials started .. T; the call returns
\* after T trials with success_count / T.
C7_Counts ==
    C7_Applies =>
        /\ 0 <= success_count /\ success_count <= trial
        /\ trial <= num_trials
        /\ pc = "done" =>
              /\ outcome = "return"
              /\ trial = num_trials
              /\ ret[2] > 0
              /\ ret[1] * num_trials = success_count * ret[2]

\* A step changes success_count only at the end of a trial, by 1 iff all
\* pairs of the sample are far enough; trials are started one at a time.
C7_TrialVerdict ==
    C7_Applies =>
        /\ pc = "tally" =>
              success_count' = success_count +
                  (IF AllPairsFar(vectors, N, min_distance) THEN 1 ELSE 0)
        /\ pc \notin {"tally", "start"} => success_count' = success_count
        /\ trial' # trial => (pc = "trials" /\ trial' = trial + 1)

\* C7: with T >= 1 trials, exactly T trials run, a trial adds exactly 1 to
\* success_count iff all its pairs are at distance >= minDistance (the
\* breaks do not change the verdict), 0 <= success_count <= T throughout,
\* and the result is success_count / T.
C7_ExactCounting == [](C7_Counts) /\ [][C7_TrialVerdict]_vars

C7_Witness ==
    /\ op = "mc" /\ pc = "done"
    /\ N = 3 /\ min_distance = 1 /\ num_trials = 2
    /\ success_count = 1

\* C8: the sweep returns, for the supplied sequences, a nested mapping
\* keyed at each level by exactly the supplied values, each entry the
\* inverse-mode answer, with one inverse-mode call per combination.
C8_SweepGrid ==
    (op = "sweep" /\ pc = "done")
    => /\ outcome = "return"
       /\ DOMAIN ret = Elems(N_values)
       /\ \A n \in DOMAIN ret :
             /\ DOMAIN ret[n] = Elems(min_distances)
             /\ \A m \in DOMAIN ret[n] :
                   /\ DOMAIN ret[n][m] = Elems(target_probabilities)
                   /\ \A p \in DOMAIN ret[n][m] :
                         ret[n][m][p] = inverse_mode(n, m, p)
       /\ Len(callLog) =
             Len(N_values) * Len(min_distances) * Len(target_probabilities)
       /\ Elems(callLog) =
             (1 .. Len(N_values)) \X (1 .. Len(min_distances))
                 \X (1 .. Len(target_probabilities))

C8_Witness ==
    /\ op = "sweep" /\ pc = "done"
    /\ N_values = <<2, 3>>
    /\ min_distances = <<1, 2>>
    /\ Len(target_probabilities) = 2
    /\ target_probabilities[1] # target_probabilities[2]
    /\ ret[3][1][Rat(1, 2)] = 3

\* C9, as stated: the search ends with an empty window and, when no D in
\* [minDistance, ceiling] meets tau, returns the ceiling itself (read here
\* on valid arguments and a non-empty range only).
C9_ReturnsCeiling_AsStated ==
    (/\ InverseDone
     /\ N >= 2 /\ InUnitInterval(success_probability)
     /\ 0 <= min_distance /\ min_distance <= SearchCeiling
     /\ ~Reachable)
    => (low_D > high_D /\ ret = SearchCeiling)

\* The window is never emptier than by one unless it started empty, the
\* search returns with an empty window, and an unmet target yields
\* ceiling + 1 (minDistance itself when minDistance > ceiling).
C9_Ends ==
    op = "inverse" =>
        /\ pc = "loop" => high_D - low_D >= -1 \/ low_D = min_distance
        /\ pc = "done" =>
              /\ outcome = "return"
              /\ low_D > high_D
              /\ ~Reachable =>
                    ret = IF min_distance > SearchCeiling
                          THEN min_distance ELSE SearchCeiling + 1

\* Every iteration of the loop strictly shrinks the window.
C9_Shrinks ==
    (op = "inverse" /\ pc = "loop" /\ pc' = "loop")
    => high_D' - low_D' < high_D - low_D

\* C9, amended: every iteration shrinks the window, so the search ends,
\* and it ends with an empty window; when no D in [minDistance, ceiling]
\* meets tau it returns ceiling + 1 (or minDistance itself when
\* minDistance > ceiling), not the ceiling.
C9_TerminatesAboveCeiling == [](C9_Ends) /\ [][C9_Shrinks]_vars

C9_Witness ==
    /\ InverseDone
    /\ N = 2 /\ min_distance = SearchCeiling
    /\ success_probability = Rat(1, 2)
    /\ ~Reachable
    /\ ret = SearchCeiling + 1

\* C10: for minDistance = 1 the deduplicating check and the pairwise check
\* give the same verdict on every sample, hence the same success count
\* and the same returned ratio over the same samples.
C10_HashAgreesWithPairs ==
    (op = "mc" /\ min_distance = 1)
    => /\ pc = "tally" =>
             (all_meet_min_distance <=> AllDistinctByHash(vectors, N))
       /\ pc \in {"trials", "done"} => hash_success_count = success_count
       /\ (pc = "done" /\ outcome = "return") =>
             ret[1] * num_trials = hash_success_count * ret[2]

C10_Witness ==
    /\ op = "mc" /\ pc = "done" /\ min_distance = 1
    /\ N = 3 /\ D = 2 /\ num_trials = 2
    /\ hash_success_count = 1 /\ success_count = 1

====
